---- MODULE Spec2Model ----
(***************************************************************************)
(* Model of the glfinancial simulation engine: the progressive tax table   *)
(* (GLTaxTools.py), the loan payment solver (GLLoanTools.py) and the       *)
(* FinancialEvent builders (GLFinancial.py).                               *)
(*                                                                         *)
(* Numbers.  Python floats are modelled as exact rationals <<num, den>>    *)
(* with den > 0, kept in lowest terms.  Growth multipliers are drawn from  *)
(* dyadic values (1/2, 3/4, 1, 5/4, 3/2, 2), for which the float products  *)
(* of the source are exact.  The root returned by scipy.optimize.brentq is *)
(* modelled by the secant step of Brent's method, which is exact for the   *)
(* affine functions it is applied to; a root that lies exactly half way    *)
(* between two integers may round either way (solver tolerance).           *)
(* The code is read as running on the Python it was written for            *)
(* (collections.Iterable still present, i.e. Python < 3.10).               *)
(***************************************************************************)
EXTENDS Integers, Sequences, FiniteSets, TLC

VARIABLES
    taxes,           \* the TaxTable instance: federal, state, standard_deduction
    taxcall,         \* the last TaxTable call: op, arg, result, raised
    fe,              \* the FinancialEvent the last builder call worked on
    call,            \* the last builder call: op and arguments
    raised,          \* the exception the last builder call ended with
    yearly_payment,  \* the payment define_loan found: {} or {payment}
    fm,              \* the FinancialModel: fevents, residences, status
    fmcall,          \* the last call on the model and the constructor's arguments
    sim,             \* the simonce / simmany call in progress and its arguments
    traj,            \* per simkey: years done, the returns drawn, its TaxTable
    results,         \* the year states, keyed by get_simyearhash(simkey, year)
    master           \* the summaries simmany adds to master_results

vars == <<taxes, taxcall, fe, call, raised, yearly_payment, fm, fmcall, sim, traj, results, master>>

taxvars == <<taxes, taxcall>>
eventvars == <<fe, call, raised, yearly_payment>>
simvars == <<sim, traj, results, master>>
modelvars == <<fm, fmcall, sim, traj, results, master>>

(***************************************************************************)
(* Exact rational arithmetic standing for Python float arithmetic.         *)
(***************************************************************************)
Abs(x) == IF x < 0 THEN -x ELSE x

Min(a, b) == IF a <= b THEN a ELSE b

RECURSIVE GCD(_, _)
GCD(a, b) == IF b = 0 THEN a ELSE GCD(b, a % b)

\* The rational n/d (d > 0) in lowest terms.
Rat(n, d) ==
    LET g == GCD(Abs(n), d)
    IN  IF g = 0 THEN <<0, 1>> ELSE <<n \div g, d \div g>>

RInt2Rat(i) == <<i, 1>>

RLcm(x, y) == (x[2] \div GCD(x[2], y[2])) * y[2]

RAdd(x, y) ==
    LET L == RLcm(x, y)
    IN  Rat(x[1] * (L \div x[2]) + y[1] * (L \div y[2]), L)

RNeg(x) == <<-x[1], x[2]>>

RSub(x, y) == RAdd(x, RNeg(y))

\* Product with cross-cancellation, so that intermediate values stay small.
RMul(x, y) ==
    LET g1 == GCD(Abs(x[1]), y[2])
        g2 == GCD(Abs(y[1]), x[2])
        a  == IF g1 = 0 THEN 0 ELSE x[1] \div g1
        b  == IF g2 = 0 THEN 0 ELSE y[1] \div g2
        c  == IF g2 = 0 THEN x[2] ELSE x[2] \div g2
        d  == IF g1 = 0 THEN y[2] ELSE y[2] \div g1
    IN  Rat(a * b, c * d)

\* x / y for y # 0.
RDiv(x, y) ==
    IF y[1] > 0 THEN RMul(x, <<y[2], y[1]>>)
                ELSE RMul(x, <<-y[2], -y[1]>>)

RSign(x) == IF x[1] > 0 THEN 1 ELSE IF x[1] < 0 THEN -1 ELSE 0

RLt(x, y) == RSign(RSub(x, y)) < 0

RLeq(x, y) == RSign(RSub(x, y)) <= 0

RAbs(x) == <<Abs(x[1]), x[2]>>

RMin(x, y) == IF RLeq(x, y) THEN x ELSE y

RMax(x, y) == IF RLeq(y, x) THEN x ELSE y

RECURSIVE RPow(_, _)
RPow(x, k) == IF k <= 0 THEN <<1, 1>> ELSE RMul(x, RPow(x, k - 1))

\* Python int(x): truncation toward zero.
RInt(x) == IF x[1] >= 0 THEN x[1] \div x[2] ELSE -((-x[1]) \div x[2])

RFloor(x) == x[1] \div x[2]

\* Python round(x): nearest integer, ties to the even neighbour.
RRound(x) ==
    LET f == RFloor(x)
        r == x[1] - f * x[2]
    IN  IF 2 * r < x[2] THEN f
        ELSE IF 2 * r > x[2] THEN f + 1
        ELSE IF f % 2 = 0 THEN f ELSE f + 1

\* round() of a value known only up to solver tolerance: a tie goes either way.
RRoundOutcomes(x) ==
    LET f == RFloor(x)
        r == x[1] - f * x[2]
    IN  IF 2 * r < x[2] THEN {f}
        ELSE IF 2 * r > x[2] THEN {f + 1}
        ELSE {f, f + 1}

(***************************************************************************)
(* GLTaxTools.py: bracket tables.  A table is a sequence of <<end, rate>>. *)
(***************************************************************************)
\* 1000 ** 5 in the source.  Only its lying above every income matters; 10^8
\* keeps "income - previous_end" within the integers the model checker has.
HUGE == 100000000

single_filer_tax_rates ==
    << <<9700, <<10, 100>>>>, <<39475, <<12, 100>>>>, <<84200, <<22, 100>>>>,
       <<160725, <<24, 100>>>>, <<204100, <<32, 100>>>>, <<510300, <<35, 100>>>>,
       <<HUGE, <<37, 100>>>> >>

married_filer_tax_rates ==
    << <<19400, <<10, 100>>>>, <<78950, <<12, 100>>>>, <<168400, <<22, 100>>>>,
       <<321450, <<24, 100>>>>, <<408200, <<32, 100>>>>, <<612350, <<35, 100>>>>,
       <<HUGE, <<37, 100>>>> >>

ca_tax_rates ==
    << <<8544, <<1, 100>>>>, <<20255, <<2, 100>>>>, <<31969, <<4, 100>>>>,
       <<44377, <<6, 100>>>>, <<56085, <<8, 100>>>>, <<286492, <<93, 1000>>>>,
       <<343788, <<103, 1000>>>>, <<572980, <<113, 1000>>>>,
       <<HUGE, <<123, 1000>>>> >>

ma_tax_rates == << <<HUGE, <<505, 10000>>>> >>

nc_tax_rates == << <<HUGE, <<525, 10000>>>> >>

example_tax_rates ==
    << <<10000, <<1, 100>>>>, <<40000, <<2, 100>>>>, <<80000, <<3, 100>>>>,
       <<HUGE, <<4, 100>>>> >>

\* Keys of tax_at_location other than None.
Locations == {"CA", "MA", "NC", "EXAMPLE"}

tax_at_location(state) ==
    CASE state = "CA" -> ca_tax_rates
      [] state = "MA" -> ma_tax_rates
      [] state = "NC" -> nc_tax_rates
      [] state = "EXAMPLE" -> example_tax_rates
      [] OTHER -> <<>>

Statuses == {"single", "married"}

federal_tax_rates(status) ==
    IF status = "married" THEN married_filer_tax_rates ELSE single_filer_tax_rates

federal_standard_deductions(status) ==
    IF status = "married" THEN 24000 ELSE 12000

\* TaxTable.__init__(status, state) for a recognized status.
TaxTable(status, state) ==
    [federal |-> federal_tax_rates(status),
     state |-> IF state = "None" THEN <<>> ELSE tax_at_location(state),
     standard_deduction |-> federal_standard_deductions(status)]

\* The same without the max(..., 0) clamp.
money_in_bracket_unclamped(pretax_income, previous_end, end) ==
    RMin(RSub(pretax_income, RInt2Rat(previous_end)), RInt2Rat(end - previous_end))

\* max(min(pretax_income - previous_end, end - previous_end), 0)
money_in_bracket(pretax_income, previous_end, end) ==
    RMax(RMin(RSub(pretax_income, RInt2Rat(previous_end)),
              RInt2Rat(end - previous_end)),
         <<0, 1>>)

\* One "for end, rate in table" loop of incometax, from bracket i on: what it
\* adds to tax_owed when previous_end is first_previous_end on entry.  Within
\* the loop previous_end is the end of the bracket before.
RECURSIVE bracket_loop(_, _, _, _)
bracket_loop(table, i, pretax_income, first_previous_end) ==
    IF i > Len(table) THEN <<0, 1>>
    ELSE LET end  == table[i][1]
             rate == table[i][2]
             previous_end == IF i = 1 THEN first_previous_end ELSE table[i - 1][1]
         IN  RAdd(RMul(money_in_bracket(pretax_income, previous_end, end), rate),
                  bracket_loop(table, i + 1, pretax_income, first_previous_end))

\* previous_end once a loop over table is through.
previous_end_after(table, first_previous_end) ==
    IF table = <<>> THEN first_previous_end ELSE table[Len(table)][1]

\* TaxTable.incometax for a scalar argument (a rational): previous_end is set
\* to 0 once, before the federal loop, and the state loop goes on from where
\* the federal loop left it.  The result is a whole number.
incometax(t, pretax_income_arg) ==
    LET pretax_income == RSub(pretax_income_arg, RInt2Rat(t.standard_deduction))
        federal == bracket_loop(t.federal, 1, pretax_income, 0)
        state   == bracket_loop(t.state, 1, pretax_income,
                                previous_end_after(t.federal, 0))
    IN  RRound(RAdd(federal, state))

(***************************************************************************)
(* TaxTable operations.                                                    *)
(***************************************************************************)
IncomeStep == 25000

MaxIncomeSteps == 8

\* Incomes the tax is computed on: a grid, the deductions and their
\* neighbours, and some bracket boundaries shifted by the deductions.
Incomes ==
    {k * IncomeStep : k \in -1..MaxIncomeSteps}
    \cup {-1, 11999, 12000, 12001, 12005, 21700, 23999, 24000, 24001, 43400,
          51475, 96200, 112000, 216100, 522300, 636350, 1000000}

StatusArgs == Statuses \cup {"widowed"}

StateArgs == Locations \cup {"None", "ZZ"}

NoTaxCall == [op |-> "init", arg |-> 0, result |-> 0, raised |-> "none"]

InitTax ==
    /\ taxes = TaxTable("single", "None")
    /\ taxcall = NoTaxCall

\* TaxTable.change_status: the message of the ValueError it means to raise
\* evaluates self.federal.keys() on a list, which raises AttributeError.
change_status(status) ==
    /\ IF status \in Statuses
       THEN /\ taxes' = [taxes EXCEPT !.federal = federal_tax_rates(status),
                            !.standard_deduction = federal_standard_deductions(status)]
            /\ taxcall' = [op |-> "change_status", arg |-> 0, result |-> 0,
                           raised |-> "none"]
       ELSE /\ taxes' = taxes
            /\ taxcall' = [op |-> "change_status", arg |-> 0, result |-> 0,
                           raised |-> "AttributeError"]
    /\ UNCHANGED <<eventvars, modelvars>>

\* TaxTable.change_state: an unknown key fails the dictionary lookup.
change_state(state) ==
    /\ IF state = "None" \/ state \in Locations
       THEN /\ taxes' = [taxes EXCEPT !.state =
                            IF state = "None" THEN <<>> ELSE tax_at_location(state)]
            /\ taxcall' = [op |-> "change_state", arg |-> 0, result |-> 0,
                           raised |-> "none"]
       ELSE /\ taxes' = taxes
            /\ taxcall' = [op |-> "change_state", arg |-> 0, result |-> 0,
                           raised |-> "KeyError"]
    /\ UNCHANGED <<eventvars, modelvars>>

IncomeTax(x) ==
    /\ taxcall' = [op |-> "incometax", arg |-> x, result |-> incometax(taxes, RInt2Rat(x)),
                   raised |-> "none"]
    /\ UNCHANGED taxes
    /\ UNCHANGED <<eventvars, modelvars>>

NextTax ==
    \/ \E status \in StatusArgs : change_status(status)
    \/ \E state \in StateArgs : change_state(state)
    \/ \E x \in Incomes : IncomeTax(x)

(***************************************************************************)
(* GLLoanTools.py: the amortization recurrence and the payment solver.     *)
(***************************************************************************)
\* principal[year] of pay_yearly_on_loan: principal[0] = initial_value,
\* principal[year] = principal[year-1] * apr - yearly_payment.
RECURSIVE principal(_, _, _, _)
principal(initial_value, apr, payment, year) ==
    IF year <= 0 THEN initial_value
    ELSE RSub(RMul(principal(initial_value, apr, payment, year - 1), apr),
              payment)

\* pay_yearly_on_loan: the loop runs over np.arange(1, duration_years) and the
\* function returns principal[year] for the loop variable's last value,
\* duration_years - 1; with an empty range "year" was never bound.
pay_yearly_on_loan(initial_value, apr, duration_years, payment) ==
    IF duration_years <= 1
    THEN [raised |-> "UnboundLocalError", value |-> <<0, 1>>]
    ELSE [raised |-> "none",
          value |-> principal(initial_value, apr, payment, duration_years - 1)]

\* find_yearly_payment: brentq on principal_remaining over
\* [0, loan_value * apr ** duration_years], then round().  brentq evaluates the
\* function at both ends (an exception of the function propagates), returns
\* an end that is a root, raises ValueError when the ends have the same sign,
\* and otherwise converges to the root, here the secant point of the ends.
\* The result is [raised, values]: the payments round() can produce.
find_yearly_payment(loan_value, apr, duration_years) ==
    LET a  == <<0, 1>>
        b  == RMul(loan_value, RPow(apr, duration_years))
        fa == pay_yearly_on_loan(loan_value, apr, duration_years, a)
        fb == pay_yearly_on_loan(loan_value, apr, duration_years, b)
    IN  IF fa.raised # "none" THEN [raised |-> fa.raised, values |-> {}]
        ELSE IF RSign(fa.value) = 0
             THEN [raised |-> "none", values |-> {RRound(a)}]
        ELSE IF RSign(fb.value) = 0
             THEN [raised |-> "none", values |-> {RRound(b)}]
        ELSE IF RSign(fa.value) * RSign(fb.value) > 0
             THEN [raised |-> "ValueError", values |-> {}]
        ELSE [raised |-> "none",
              values |-> RRoundOutcomes(
                  RSub(b, RMul(fb.value,
                               RDiv(RSub(b, a), RSub(fb.value, fa.value)))))]

(***************************************************************************)
(* GLFinancial.py: Parameters and FinancialEvent.                          *)
(***************************************************************************)
\* Parameters().max_years, 75 in the source, scaled down.
max_years == 4

min_apr == <<3, 4>>

max_apr == <<5, 4>>

\* The empty dict.
EmptyFlow == [year \in {} |-> <<0, 1>>]

\* FinancialEvent.__init__
FinancialEvent ==
    [name |-> "Unnamed", definedas |-> "NeverDefined", cashflow |-> EmptyFlow,
     nwflow |-> EmptyFlow, agi_impacting |-> FALSE]

\* dict.get(year, 0)
Get(flow, year) == IF year \in DOMAIN flow THEN flow[year] ELSE <<0, 1>>

\* np.arange(start, stop) for integers
arange(start, stop) == start..(stop - 1)

\* The default taken as "every event is taxed".
agi_after_define_always(self_agi_impacting, agi_impacting, amount) ==
    IF agi_impacting = "None" THEN TRUE
    ELSE agi_impacting = "True"

\* The "if agi_impacting is None: ... else: self.agi_impacting = ..." of
\* define_single and define_yearly: with None only the local name
\* agi_impacting is bound, and the attribute keeps the value it had.
agi_after_define(self_agi_impacting, agi_impacting, amount) ==
    IF agi_impacting = "None" THEN self_agi_impacting
    ELSE agi_impacting = "True"

\* A one-time event that records its cash amount only.
define_single_cash_only(self, amount, name, year, agi_impacting, nw_amount) ==
    [fe |-> [self EXCEPT
                !.name = name,
                !.definedas = "single",
                !.cashflow = (year :> RInt2Rat(amount)) @@ self.cashflow,
                !.agi_impacting =
                    agi_after_define(self.agi_impacting, agi_impacting, amount)],
     raised |-> "none"]

\* FinancialEvent.define_single
define_single(self, amount, name, year, agi_impacting, nw_amount) ==
    [fe |-> [self EXCEPT
                !.name = name,
                !.definedas = "single",
                !.cashflow = (year :> RInt2Rat(amount)) @@ self.cashflow,
                !.nwflow = (year :> RInt2Rat(nw_amount)) @@ self.nwflow,
                !.agi_impacting =
                    agi_after_define(self.agi_impacting, agi_impacting, amount)],
     raised |-> "none"]

\* The range check without the max_years bound.
yearly_range_invalid_no_max(year_start, year_end) ==
    year_start > year_end

\* year_start > year_end or year_end > Parameters().max_years
yearly_range_invalid(year_start, year_end) ==
    year_start > year_end \/ year_end > max_years

\* The loop with year_end included.
yearly_flow_inclusive(amount, year_start, year_end, apr) ==
    [year \in year_start..year_end |->
        RMul(RInt2Rat(amount), RPow(apr, year - year_start))]

\* The entries the loop of define_yearly writes to cashflow (or nwflow):
\* flow[year] = amount * (apr ** (year - year_start)) over arange.
yearly_flow(amount, year_start, year_end, apr) ==
    [year \in arange(year_start, year_end) |->
        RMul(RInt2Rat(amount), RPow(apr, year - year_start))]

\* FinancialEvent.define_yearly
define_yearly(self, yearly_amount, name, yearly_nw_amount, year_start, year_end, agi_impacting, apr, definedas) ==
    LET named == [self EXCEPT
                    !.name = name,
                    !.definedas = definedas,
                    !.agi_impacting = agi_after_define(self.agi_impacting,
                                          agi_impacting, yearly_amount)]
    IN  IF yearly_range_invalid(year_start, year_end)
        THEN [fe |-> named, raised |-> "ValueError"]
        ELSE [fe |-> [named EXCEPT
                        !.cashflow = yearly_flow(yearly_amount, year_start,
                                         year_end, apr) @@ self.cashflow,
                        !.nwflow = yearly_flow(yearly_nw_amount, year_start,
                                       year_end, apr) @@ self.nwflow],
              raised |-> "none"]

\* FinancialEvent.define_monthly
define_monthly(self, monthly_amount, name, monthly_nw_amount, year_start, year_end, agi_impacting, apr) ==
    define_yearly(self, monthly_amount * 12, name, monthly_nw_amount * 12,
                  year_start, year_end, agi_impacting, apr, "monthly")

\* FinancialEvent.gross_income
gross_income(self, year) == Get(self.cashflow, year)

\* FinancialEvent.adjusted_gross_income
adjusted_gross_income(self, year) ==
    IF self.agi_impacting THEN gross_income(self, year) ELSE <<0, 1>>

\* FinancialEvent.explicit_nw_impact
explicit_nw_impact(self, year) == Get(self.nwflow, year)

\* The sum of the flagged cash, negative amounts included.
RECURSIVE AdjustedGrossIncome_net(_, _)
AdjustedGrossIncome_net(fevents, cur_year) ==
    IF fevents = <<>> THEN <<0, 1>>
    ELSE RAdd(adjusted_gross_income(Head(fevents), cur_year),
              AdjustedGrossIncome_net(Tail(fevents), cur_year))

\* simonce's this_year['Adjusted Gross Income']:
\* np.sum([max(0, fe.adjusted_gross_income(cur_year)) for fe in self.fevents])
RECURSIVE AdjustedGrossIncome(_, _)
AdjustedGrossIncome(fevents, cur_year) ==
    IF fevents = <<>> THEN <<0, 1>>
    ELSE RAdd(RMax(<<0, 1>>, adjusted_gross_income(Head(fevents), cur_year)),
              AdjustedGrossIncome(Tail(fevents), cur_year))

\* The validation of define_loan: the chained comparison
\* min_apr > apr > max_apr means min_apr > apr and apr > max_apr.
loan_invalid(year_start, duration, apr) ==
    \/ year_start + duration > max_years
    \/ duration < 0
    \/ (RLt(apr, min_apr) /\ RLt(max_apr, apr))

\* define_loan from the loop on, for the rounded payment yearly_payment:
\* the cash entries, then the payoff adjustment of the last year written.
loan_fill(self, loan_value, duration, year_start, apr, early_payoff_year, payment) ==
    LET payoff_year == Min(year_start + duration, early_payoff_year)
        years  == arange(year_start, payoff_year)
        filled == [self EXCEPT
                     !.cashflow = [y \in years |-> RInt2Rat(-payment)]
                                  @@ self.cashflow]
        year   == payoff_year - 1
        left   == pay_yearly_on_loan(RInt2Rat(loan_value), apr,
                                     year - year_start, RInt2Rat(payment))
        principal_remaining == RInt(left.value)
    IN  IF years = {} THEN [fe |-> filled, raised |-> "UnboundLocalError"]
        ELSE IF left.raised # "none" THEN [fe |-> filled, raised |-> left.raised]
        ELSE [fe |-> [filled EXCEPT !.cashflow =
                        (year :> RInt2Rat(-payment - principal_remaining))
                        @@ filled.cashflow],
              raised |-> "none"]

\* FinancialEvent.define_loan up to the validation.
loan_named(self, name, agi_impacting) ==
    [self EXCEPT
        !.name = name,
        !.definedas = "loan",
        !.agi_impacting = IF agi_impacting = "None" THEN FALSE
                          ELSE agi_impacting = "True"]

(***************************************************************************)
(* Builder calls.  An event is constructed and then defined once by one    *)
(* builder, as add_single, add_yearly, add_monthly and add_loan do with    *)
(* FinancialEvent().define_...(...): the builders act on the event fe      *)
(* while it is still as __init__ left it.                                  *)
(***************************************************************************)
Amounts == {-1000, 0, 1000}

NwAmounts == {0, 500}

AgiArgs == {"None", "True", "False"}

YearArgs == -1..(max_years + 1)

GrowthAprs == {<<1, 2>>, <<1, 1>>, <<3, 2>>, <<2, 1>>}

LoanValues == {0, 25, 100}

LoanAprs == {<<1, 2>>, <<3, 4>>, <<1, 1>>, <<5, 4>>, <<3, 2>>}

LoanStarts == 0..1

EarlyPayoffYears == {0, 2, 3, max_years}

EventName == "event"

NoCall ==
    [op |-> "init", amount |-> 0, nw_amount |-> 0, year_start |-> 0,
     year_end |-> 0, agi_impacting |-> "None", apr |-> <<1, 1>>,
     duration |-> 0, early_payoff_year |-> 0]

\* The event has not been through a builder yet.
Fresh(self) == self.definedas = "NeverDefined"

InitEvent ==
    /\ fe = FinancialEvent
    /\ call = NoCall
    /\ raised = "none"
    /\ yearly_payment = {}

DefineSingle(amount, year, agi_impacting, nw_amount) ==
    LET out == define_single(fe, amount, EventName, year,
                             agi_impacting, nw_amount)
    IN  /\ Fresh(fe)
        /\ fe' = out.fe
        /\ raised' = out.raised
        /\ call' = [NoCall EXCEPT !.op = "define_single", !.amount = amount,
                       !.nw_amount = nw_amount, !.year_start = year,
                       !.agi_impacting = agi_impacting]
        /\ yearly_payment' = {}
        /\ UNCHANGED <<taxvars, modelvars>>

DefineYearly(amount, nw_amount, year_start, year_end, agi_impacting, apr) ==
    LET out == define_yearly(fe, amount, EventName, nw_amount,
                             year_start, year_end, agi_impacting, apr, "yearly")
    IN  /\ Fresh(fe)
        /\ fe' = out.fe
        /\ raised' = out.raised
        /\ call' = [NoCall EXCEPT !.op = "define_yearly", !.amount = amount,
                       !.nw_amount = nw_amount, !.year_start = year_start,
                       !.year_end = year_end, !.agi_impacting = agi_impacting,
                       !.apr = apr]
        /\ yearly_payment' = {}
        /\ UNCHANGED <<taxvars, modelvars>>

DefineMonthly(amount, nw_amount, year_start, year_end, agi_impacting, apr) ==
    LET out == define_monthly(fe, amount, EventName, nw_amount,
                              year_start, year_end, agi_impacting, apr)
    IN  /\ Fresh(fe)
        /\ fe' = out.fe
        /\ raised' = out.raised
        /\ call' = [NoCall EXCEPT !.op = "define_monthly", !.amount = amount,
                       !.nw_amount = nw_amount, !.year_start = year_start,
                       !.year_end = year_end, !.agi_impacting = agi_impacting,
                       !.apr = apr]
        /\ yearly_payment' = {}
        /\ UNCHANGED <<taxvars, modelvars>>

\* FinancialEvent.define_loan
DefineLoan(loan_value, duration, year_start, agi_impacting, apr, early_payoff_year) ==
    LET named == loan_named(fe, EventName, agi_impacting)
        found == find_yearly_payment(RInt2Rat(loan_value), apr, duration)
    IN  /\ Fresh(fe)
        /\ call' = [NoCall EXCEPT !.op = "define_loan", !.amount = loan_value,
                       !.year_start = year_start, !.duration = duration,
                       !.agi_impacting = agi_impacting, !.apr = apr,
                       !.early_payoff_year = early_payoff_year]
        /\ IF loan_invalid(year_start, duration, apr)
           THEN /\ fe' = named
                /\ raised' = "ValueError"
                /\ yearly_payment' = {}
           ELSE IF found.raised # "none"
           THEN /\ fe' = named
                /\ raised' = found.raised
                /\ yearly_payment' = {}
           ELSE \E payment \in found.values :
                    LET out == loan_fill(named, loan_value, duration, year_start,
                                         apr, early_payoff_year, payment)
                    IN  /\ fe' = out.fe
                        /\ raised' = out.raised
                        /\ yearly_payment' = {payment}
        /\ UNCHANGED <<taxvars, modelvars>>

NextEvent ==
    \/ \E amount \in Amounts, year \in YearArgs, agi_impacting \in AgiArgs,
          nw_amount \in NwAmounts :
            DefineSingle(amount, year, agi_impacting, nw_amount)
    \/ \E amount \in Amounts, nw_amount \in NwAmounts, year_start \in YearArgs,
          year_end \in YearArgs, agi_impacting \in AgiArgs, apr \in GrowthAprs :
            DefineYearly(amount, nw_amount, year_start, year_end, agi_impacting, apr)
    \/ \E amount \in Amounts, nw_amount \in NwAmounts, year_start \in YearArgs,
          year_end \in YearArgs, agi_impacting \in AgiArgs, apr \in GrowthAprs :
            DefineMonthly(amount, nw_amount, year_start, year_end, agi_impacting, apr)
    \/ \E loan_value \in LoanValues, duration \in YearArgs, year_start \in LoanStarts,
          agi_impacting \in AgiArgs, apr \in LoanAprs,
          early_payoff_year \in EarlyPayoffYears :
            DefineLoan(loan_value, duration, year_start, agi_impacting, apr,
                       early_payoff_year)

(***************************************************************************)
(* GLFinancial.py: FinancialModel, its residences and status mappings.     *)
(***************************************************************************)
\* An optional integer argument: None is {} and the integer n is {n}.
None == {}

Some(n) == {n}

OrElse(opt, default) == IF opt = None THEN default ELSE CHOOSE n \in opt : TRUE

Max(a, b) == IF a >= b THEN a ELSE b

\* The empty dict of residences or of status.
EmptyMapping == [year \in {} |-> "None"]

\* dict.get(year, None)
MappingGet(mapping, year) ==
    IF year \in DOMAIN mapping THEN mapping[year] ELSE "None"

\* A change without year_end taken as a change of the one year.
fill_end_one_year(year_start, year_end) ==
    IF year_end = None THEN year_start + 1
    ELSE Max(year_start + 1, OrElse(year_end, 0))

\* fill_end of change_residence and change_status: Parameters().max_years
\* when year_end is None, else max(year_start + 1, year_end).
fill_end(year_start, year_end) ==
    IF year_end = None THEN max_years
    ELSE Max(year_start + 1, OrElse(year_end, 0))

\* "if year_start is None: year_start = 0", then the loop
\* "for year in np.arange(year_start, fill_end): mapping[year] = value".
filled(mapping, value, year_start, year_end) ==
    LET start == OrElse(year_start, 0)
    IN  [year \in arange(start, fill_end(start, year_end)) |-> value] @@ mapping

\* FinancialModel.change_residence: the location is stored as given.
FinancialModel_change_residence(self, location, year_start, year_end) ==
    [self EXCEPT !.residences = filled(self.residences, location,
                                       year_start, year_end)]

\* FinancialModel.change_status: the status is stored as given.
FinancialModel_change_status(self, status, year_start, year_end) ==
    [self EXCEPT !.status = filled(self.status, status, year_start, year_end)]

\* FinancialModel.__init__
FinancialModel(nw_apr, nw_apr_stdev, location, status) ==
    LET new == [fevents |-> <<>>, residences |-> EmptyMapping,
                status |-> EmptyMapping, nw_apr |-> nw_apr,
                nw_apr_stdev |-> nw_apr_stdev]
        located == IF location # "None"
                   THEN FinancialModel_change_residence(new, location,
                                                        Some(0), None)
                   ELSE new
    IN  FinancialModel_change_status(located, status, Some(0), None)

\* The defaults nw_apr=1.06 and nw_apr_stdev=0.08 of FinancialModel.__init__.
default_nw_apr == <<53, 50>>

default_nw_apr_stdev == <<2, 25>>

\* A table configured for a year from the status and the residence of the
\* year before it.
set_from_fm_of_last_year(self, financialmodel, year) ==
    LET current_location == MappingGet(financialmodel.residences, year - 1)
        current_status == MappingGet(financialmodel.status, year - 1)
    IN  [taxes |-> [self EXCEPT
                       !.state = IF current_location = "None" THEN <<>>
                                 ELSE tax_at_location(current_location),
                       !.federal = federal_tax_rates(current_status),
                       !.standard_deduction =
                           federal_standard_deductions(current_status)],
         raised |-> "none"]

\* A set_from_fm that changes the table only when both changes succeed.
set_from_fm_atomic(self, financialmodel, year) ==
    LET current_location == MappingGet(financialmodel.residences, year)
        current_status == MappingGet(financialmodel.status, year)
    IN  IF current_location # "None" /\ current_location \notin Locations
        THEN [taxes |-> self, raised |-> "KeyError"]
        ELSE IF current_status \notin Statuses
        THEN [taxes |-> self, raised |-> "AttributeError"]
        ELSE [taxes |-> TaxTable(current_status, current_location),
              raised |-> "none"]

\* TaxTable.set_from_fm: change_state with the year's residence, then
\* change_status with the year's status; either can raise, and the state
\* table is already replaced when change_status raises.
set_from_fm(self, financialmodel, year) ==
    LET current_location == MappingGet(financialmodel.residences, year)
        current_status == MappingGet(financialmodel.status, year)
        located == [self EXCEPT !.state =
                       IF current_location = "None" THEN <<>>
                       ELSE tax_at_location(current_location)]
    IN  IF current_location # "None" /\ current_location \notin Locations
        THEN [taxes |-> self, raised |-> "KeyError"]
        ELSE IF current_status \notin Statuses
        THEN [taxes |-> located, raised |-> "AttributeError"]
        ELSE [taxes |-> [located EXCEPT
                            !.federal = federal_tax_rates(current_status),
                            !.standard_deduction =
                                federal_standard_deductions(current_status)],
              raised |-> "none"]

(***************************************************************************)
(* GLFinancial.py: simonce and simmany.                                    *)
(***************************************************************************)
\* float('NaN'), kept apart from every rational by its zero denominator.
NaN == <<0, 0>>

IsNaN(v) == v[2] = 0

\* resultkeys of simmany
resultkeys ==
    {"Net Worth", "Gross Income", "Adjusted Gross Income", "Taxes",
     "Expenses", "Net Gain", "Explicit NW Impact"}

\* The keys of Summaries in simmany
Summaries == {"Median", "Mean", "STDEV", "10%", "90%"}

\* The key made of the year alone, whatever the simkey.
get_simyearhash_year_only(simkey, year) == <<0, year>>

\* FinancialModel.get_simyearhash: 'Year#<year>' for simkey None (written 0
\* here) and 'Simkey:<simkey>:Year#<year>' for the numbered simkeys.
get_simyearhash(simkey, year) == <<simkey, year>>

\* dict.get(key, default) on a year state
StateGet(state, key, default) ==
    IF key \in DOMAIN state THEN state[key] ELSE default

\* The sum of all cash, incomes and expenses alike.
RECURSIVE GrossIncome_net(_, _)
GrossIncome_net(fevents, cur_year) ==
    IF fevents = <<>> THEN <<0, 1>>
    ELSE RAdd(gross_income(Head(fevents), cur_year),
              GrossIncome_net(Tail(fevents), cur_year))

\* np.sum([max(0, fe.gross_income(cur_year)) for fe in self.fevents])
RECURSIVE GrossIncome(_, _)
GrossIncome(fevents, cur_year) ==
    IF fevents = <<>> THEN <<0, 1>>
    ELSE RAdd(RMax(<<0, 1>>, gross_income(Head(fevents), cur_year)),
              GrossIncome(Tail(fevents), cur_year))

\* abs(np.sum([min(0, fe.gross_income(cur_year)) for fe in self.fevents]))
RECURSIVE NegativeCash(_, _)
NegativeCash(fevents, cur_year) ==
    IF fevents = <<>> THEN <<0, 1>>
    ELSE RAdd(RMin(<<0, 1>>, gross_income(Head(fevents), cur_year)),
              NegativeCash(Tail(fevents), cur_year))

\* The sum of the negative cash amounts with its sign.
Expenses_signed(fevents, cur_year) == NegativeCash(fevents, cur_year)

Expenses(fevents, cur_year) == RAbs(NegativeCash(fevents, cur_year))

\* np.sum([fe.explicit_nw_impact(cur_year) for fe in self.fevents])
RECURSIVE ExplicitNWImpact(_, _)
ExplicitNWImpact(fevents, cur_year) ==
    IF fevents = <<>> THEN <<0, 1>>
    ELSE RAdd(explicit_nw_impact(Head(fevents), cur_year),
              ExplicitNWImpact(Tail(fevents), cur_year))

\* A year-0 state that carries the Net Gain of the cash flows of year 0.
seed_year_with_net_gain(self, initial_nw) ==
    [key \in {"Net Worth", "Explicit NW Impact", "Net Gain"} |->
        IF key = "Net Worth" THEN RInt2Rat(initial_nw)
        ELSE IF key = "Explicit NW Impact"
        THEN ExplicitNWImpact(self.fevents, 0)
        ELSE RSub(GrossIncome(self.fevents, 0), Expenses(self.fevents, 0))]

\* A year-0 state that holds every key, the ones not computed as 0.
seed_year_all_keys(self, initial_nw) ==
    [key \in resultkeys |->
        IF key = "Net Worth" THEN RInt2Rat(initial_nw)
        ELSE IF key = "Explicit NW Impact"
        THEN ExplicitNWImpact(self.fevents, 0)
        ELSE <<0, 1>>]

\* The year-0 state simonce starts from: two keys only.
seed_year(self, initial_nw) ==
    [key \in {"Net Worth", "Explicit NW Impact"} |->
        IF key = "Net Worth" THEN RInt2Rat(initial_nw)
        ELSE ExplicitNWImpact(self.fevents, 0)]

\* The values np.random.normal(loc, scale) is sampled at: two scales below
\* the mean and one above it, which is the mean itself for scale 0.
normal(loc, scale) ==
    {RSub(loc, RMul(<<2, 1>>, scale)), RAdd(loc, scale)}

\* nw_apr = max(0, np.random.normal(loc=nw_apr_avg, scale=nw_apr_stdev))
nw_aprs(nw_apr_avg, nw_apr_stdev) ==
    {RMax(<<0, 1>>, draw) : draw \in normal(nw_apr_avg, nw_apr_stdev)}

\* A Net Worth that grows by the return and the explicit impact only.
net_worth_without_gain(last_year, nw_apr) ==
    RAdd(RMul(last_year["Net Worth"], nw_apr), last_year["Explicit NW Impact"])

\* this_year['Net Worth'] of the loop of simonce
net_worth(last_year, nw_apr) ==
    LET net_worth_interest ==
            RMul(StateGet(last_year, "Net Worth", <<0, 1>>),
                 RSub(nw_apr, <<1, 1>>))
    IN  RAdd(RAdd(RAdd(last_year["Net Worth"], net_worth_interest),
                  StateGet(last_year, "Net Gain", <<0, 1>>)),
             last_year["Explicit NW Impact"])

\* A pass of the loop that counts the year's return on Net Worth as part of
\* the year's Net Gain.
this_year_interest_in_gain(self, table, last_year, cur_year, nw_apr) ==
    LET gross    == GrossIncome(self.fevents, cur_year)
        agi      == AdjustedGrossIncome(self.fevents, cur_year)
        tax      == RInt2Rat(incometax(table, agi))
        expenses == Expenses(self.fevents, cur_year)
        interest == RMul(last_year["Net Worth"], RSub(nw_apr, <<1, 1>>))
    IN  [key \in resultkeys |->
            CASE key = "Net Worth" -> net_worth(last_year, nw_apr)
              [] key = "Gross Income" -> gross
              [] key = "Adjusted Gross Income" -> agi
              [] key = "Taxes" -> tax
              [] key = "Expenses" -> expenses
              [] key = "Explicit NW Impact" ->
                     ExplicitNWImpact(self.fevents, cur_year)
              [] key = "Net Gain" ->
                     RAdd(RSub(RSub(gross, tax), expenses), interest)]

\* One pass of the loop of simonce after taxes.set_from_fm succeeded:
\* this_year, from last_year, the drawn nw_apr and the configured table.
this_year(self, table, last_year, cur_year, nw_apr) ==
    LET gross    == GrossIncome(self.fevents, cur_year)
        agi      == AdjustedGrossIncome(self.fevents, cur_year)
        tax      == RInt2Rat(incometax(table, agi))
        posttax_income == RSub(gross, tax)
        expenses == Expenses(self.fevents, cur_year)
    IN  [key \in resultkeys |->
            CASE key = "Net Worth" -> net_worth(last_year, nw_apr)
              [] key = "Gross Income" -> gross
              [] key = "Adjusted Gross Income" -> agi
              [] key = "Taxes" -> tax
              [] key = "Expenses" -> expenses
              [] key = "Explicit NW Impact" ->
                     ExplicitNWImpact(self.fevents, cur_year)
              [] key = "Net Gain" -> RSub(posttax_income, expenses)]

\* The values numpy's nan-functions work on: the NaN entries are dropped.
notnan(values) == SelectSeq(values, LAMBDA v : ~IsNaN(v))

RECURSIVE RSum(_)
RSum(values) ==
    IF values = <<>> THEN <<0, 1>>
    ELSE RAdd(Head(values), RSum(Tail(values)))

RECURSIVE insert(_, _)
insert(v, ordered) ==
    IF ordered = <<>> THEN <<v>>
    ELSE IF RLeq(v, Head(ordered)) THEN <<v>> \o ordered
    ELSE <<Head(ordered)>> \o insert(v, Tail(ordered))

\* The values in increasing order.
RECURSIVE sorted(_)
sorted(values) ==
    IF values = <<>> THEN <<>>
    ELSE insert(Head(values), sorted(Tail(values)))

\* np.nanmean: NaN for no value.
nanmean(values) ==
    LET xs == notnan(values)
    IN  IF xs = <<>> THEN NaN ELSE RDiv(RSum(xs), RInt2Rat(Len(xs)))

\* np.nanmedian: the middle value, or the mean of the two middle values.
nanmedian(values) ==
    LET xs == sorted(notnan(values))
        n  == Len(xs)
    IN  IF n = 0 THEN NaN
        ELSE IF n % 2 = 1 THEN xs[(n + 1) \div 2]
        ELSE RDiv(RAdd(xs[n \div 2], xs[n \div 2 + 1]), <<2, 1>>)

\* np.nanpercentile(values, q): linear interpolation between the two values
\* around position (n - 1) * q / 100 of the ordered values.
nanpercentile(values, q) ==
    LET xs   == sorted(notnan(values))
        n    == Len(xs)
        h    == Rat((n - 1) * q, 100)
        lo   == RFloor(h)
        frac == RSub(h, RInt2Rat(lo))
    IN  IF n = 0 THEN NaN
        ELSE IF lo + 1 >= n THEN xs[n]
        ELSE RAdd(xs[lo + 1], RMul(frac, RSub(xs[lo + 2], xs[lo + 1])))

\* np.nanstd, kept as its square (the mean squared distance to the mean),
\* which is rational; it is NaN exactly when np.nanstd is.
nanstd_squared(values) ==
    LET xs   == notnan(values)
        mean == nanmean(values)
        sq(x) == RMul(RSub(x, mean), RSub(x, mean))
    IN  IF xs = <<>> THEN NaN
        ELSE RDiv(RSum([i \in DOMAIN xs |-> sq(xs[i])]), RInt2Rat(Len(xs)))

\* Summaries[summary](result_list)
summarise(summary, result_list) ==
    CASE summary = "Median" -> nanmedian(result_list)
      [] summary = "Mean" -> nanmean(result_list)
      [] summary = "STDEV" -> nanstd_squared(result_list)
      [] summary = "10%" -> nanpercentile(result_list, 10)
      [] summary = "90%" -> nanpercentile(result_list, 90)

\* result_list of simmany: one entry per simkey, NaN where the year state of
\* the trajectory has no such key.
result_list(master_results, simkeys, year, result) ==
    [i \in DOMAIN simkeys |->
        StateGet(master_results[get_simyearhash(simkeys[i], year)],
                 result, NaN)]

\* The summary entries simmany adds to master_results.
summaries(master_results, simkeys, nyears) ==
    [summary \in Summaries |->
        [year \in arange(0, nyears) |->
            [result \in resultkeys |->
                summarise(summary,
                          result_list(master_results, simkeys, year, result))]]]

(***************************************************************************)
(* Calls on a FinancialModel: construction, changes of residence and of    *)
(* status, and a TaxTable configured from the model for a year.            *)
(***************************************************************************)
ModelLocations == {"None", "MA", "ZZ"}

ModelStatuses == {"single", "widowed"}

ChangeLocations == {"CA"}

ChangeStatuses == {"married", "widowed"}

YearStartArgs == {None, Some(2)}

YearEndArgs == {None, Some(1)}

\* No simulation has been asked for.
NoSim ==
    [op |-> "none", nruns |-> 0, nyears |-> 0, initial_nw |-> 0,
     nw_apr_avg |-> <<1, 1>>, nw_apr_stdev |-> <<0, 1>>, simkeys |-> <<>>,
     given |-> [nw_apr_avg |-> FALSE, nw_apr_stdev |-> FALSE],
     raised |-> "none", summarised |-> FALSE]

InitSim ==
    /\ sim = NoSim
    /\ traj = <<>>
    /\ results = <<>>
    /\ master = <<>>

\* fm = FinancialModel(nw_apr=nw_apr, nw_apr_stdev=nw_apr_stdev,
\*                     location=location, status=status)
InitModel(nw_apr, nw_apr_stdev, location, status) ==
    /\ fm = FinancialModel(nw_apr, nw_apr_stdev, location, status)
    /\ fmcall = [op |-> "FinancialModel",
                 new |-> [location |-> location, status |-> status]]

\* The calls that configure the model come before the calls that read it.
Configuring == taxcall.op # "set_from_fm" /\ sim.op = "none"

ChangeResidence(location, year_start, year_end) ==
    /\ Configuring
    /\ fm' = FinancialModel_change_residence(fm, location, year_start, year_end)
    /\ fmcall' = [fmcall EXCEPT !.op = "change_residence"]
    /\ UNCHANGED <<taxvars, eventvars, simvars>>

ChangeStatus(status, year_start, year_end) ==
    /\ Configuring
    /\ fm' = FinancialModel_change_status(fm, status, year_start, year_end)
    /\ fmcall' = [fmcall EXCEPT !.op = "change_status"]
    /\ UNCHANGED <<taxvars, eventvars, simvars>>

\* taxes.set_from_fm(fm, year)
SetFromFm(year) ==
    LET out == set_from_fm(taxes, fm, year)
    IN  /\ taxes' = out.taxes
        /\ taxcall' = [op |-> "set_from_fm", arg |-> year, result |-> 0,
                       raised |-> out.raised]
        /\ UNCHANGED <<eventvars, modelvars>>

NextModel ==
    \/ \E location \in ChangeLocations, year_start \in YearStartArgs,
          year_end \in YearEndArgs :
            ChangeResidence(location, year_start, year_end)
    \/ \E status \in ChangeStatuses, year_start \in YearStartArgs,
          year_end \in YearEndArgs :
            ChangeStatus(status, year_start, year_end)
    \/ \E year \in 0..max_years : SetFromFm(year)

(***************************************************************************)
(* Simulating a model: events are added, then simonce or simmany runs.     *)
(* A trajectory is one simonce call; it advances one year of its loop at   *)
(* a time, and the year steps of different trajectories interleave.        *)
(***************************************************************************)
MaxEvents == 2

\* The constructor arguments nw_apr, nw_apr_stdev, location, status.
SimModels ==
    {<<default_nw_apr, default_nw_apr_stdev, "None", "single">>,
     <<default_nw_apr, default_nw_apr_stdev, "MA", "married">>,
     <<default_nw_apr, default_nw_apr_stdev, "ZZ", "single">>,
     <<default_nw_apr, default_nw_apr_stdev, "None", "widowed">>,
     <<<<2, 1>>, <<0, 1>>, "None", "single">>}

\* change_status('married', year_start=2), change_residence('CA', year_start=2)
SimChangeStatuses == {"married"}

SimChangeLocations == {"CA"}

SimYearStartArgs == {Some(2)}

\* add_yearly(40000, 'Salary', agi_impacting=True) and
\* add_yearly(-3000, '401k', yearly_nw_amount=3000, agi_impacting=True)
YearlyCalls ==
    {[amount |-> 40000, nw_amount |-> 0, agi_impacting |-> "True"],
     [amount |-> -3000, nw_amount |-> 3000, agi_impacting |-> "True"]}

\* add_monthly(500, 'Lodger')
MonthlyCalls ==
    {[amount |-> 500, nw_amount |-> 0, agi_impacting |-> "None"]}

RunArgs == {1, 2, 3}

YearCountArgs == {1, 2, 3}

InitialNwArgs == {1000}

NwAprArgs == {<<1, 1>>}

NwAprStdevArgs == {<<0, 1>>, <<1, 1>>}

\* The defaults nw_apr_avg=1.075494565 and nw_apr_stdev=0.189442643 of
\* simonce, rounded to eighths.
simonce_nw_apr_avg == <<9, 8>>

simonce_nw_apr_stdev == <<1, 4>>

\* An argument of simonce given, or left to its default.
Optional(args) == {None} \cup {Some(arg) : arg \in args}

\* The event is not one of the model's events yet.
NotAdded(event) == \A i \in DOMAIN fm.fevents : fm.fevents[i] # event

\* FinancialModel.add_yearly with the default years and apr
AddYearly(amount, nw_amount, agi_impacting) ==
    LET out == define_yearly(FinancialEvent, amount, EventName, nw_amount,
                             0, max_years, agi_impacting, <<1, 1>>, "yearly")
    IN  /\ Configuring
        /\ Len(fm.fevents) < MaxEvents
        /\ NotAdded(out.fe)
        /\ fm' = IF out.raised = "none"
                 THEN [fm EXCEPT !.fevents = Append(@, out.fe)] ELSE fm
        /\ fmcall' = [fmcall EXCEPT !.op = "add_yearly"]
        /\ UNCHANGED <<taxvars, eventvars, simvars>>

\* FinancialModel.add_monthly with the default years and apr
AddMonthly(amount, nw_amount, agi_impacting) ==
    LET out == define_monthly(FinancialEvent, amount, EventName, nw_amount,
                              0, max_years, agi_impacting, <<1, 1>>)
    IN  /\ Configuring
        /\ Len(fm.fevents) < MaxEvents
        /\ NotAdded(out.fe)
        /\ fm' = IF out.raised = "none"
                 THEN [fm EXCEPT !.fevents = Append(@, out.fe)] ELSE fm
        /\ fmcall' = [fmcall EXCEPT !.op = "add_monthly"]
        /\ UNCHANGED <<taxvars, eventvars, simvars>>

\* fm.simonce(nyears, initial_nw, ...) with simkey None; nw_apr_avg and
\* nw_apr_stdev are given or left to the defaults of simonce.
SimOnce(nyears, initial_nw, nw_apr_avg, nw_apr_stdev) ==
    /\ sim.op = "none"
    /\ sim' = [NoSim EXCEPT !.op = "simonce", !.nyears = nyears,
                  !.initial_nw = initial_nw,
                  !.nw_apr_avg = OrElse(nw_apr_avg, simonce_nw_apr_avg),
                  !.nw_apr_stdev = OrElse(nw_apr_stdev, simonce_nw_apr_stdev),
                  !.given = [nw_apr_avg |-> nw_apr_avg # None,
                             nw_apr_stdev |-> nw_apr_stdev # None],
                  !.simkeys = <<0>>]
    /\ UNCHANGED <<taxvars, eventvars, fm, fmcall, traj, results, master>>

\* fm.simmany(nruns, nyears, initial_nw=..., nw_apr_avg=..., nw_apr_stdev=...)
\* up to the list of simkeys; the keyword arguments go to simonce as given.
SimMany(nruns, nyears, initial_nw, nw_apr_avg, nw_apr_stdev) ==
    /\ sim.op = "none"
    /\ sim' = [NoSim EXCEPT !.op = "simmany", !.nruns = nruns,
                  !.nyears = nyears, !.initial_nw = initial_nw,
                  !.nw_apr_avg = nw_apr_avg, !.nw_apr_stdev = nw_apr_stdev,
                  !.given = [nw_apr_avg |-> TRUE, nw_apr_stdev |-> TRUE],
                  !.simkeys = [simnum \in arange(1, nruns) |-> simnum]]
    /\ UNCHANGED <<taxvars, eventvars, fm, fmcall, traj, results, master>>

Running == sim.op # "none" /\ sim.raised = "none" /\ ~sim.summarised

\* simonce(simkey=simkey, ...) up to its loop: the year-0 state and a new
\* TaxTable().
SimStart(simkey) ==
    /\ Running
    /\ simkey \notin DOMAIN traj
    /\ traj' = (simkey :> [year |-> 0, nw_aprs |-> <<>>,
                           taxes |-> TaxTable("single", "None")]) @@ traj
    /\ results' = (get_simyearhash(simkey, 0) :> seed_year(fm, sim.initial_nw))
                  @@ results
    /\ UNCHANGED <<taxvars, eventvars, fm, fmcall, sim, master>>

\* One pass of the loop of simonce(simkey=simkey, ...) for the next year; an
\* exception of set_from_fm ends simonce, and simmany with it.
SimYear(simkey) ==
    /\ Running
    /\ simkey \in DOMAIN traj
    /\ traj[simkey].year + 1 \in arange(1, sim.nyears)
    /\ \E nw_apr \in nw_aprs(sim.nw_apr_avg, sim.nw_apr_stdev) :
        LET cur_year  == traj[simkey].year + 1
            last_year == results[get_simyearhash(simkey, cur_year - 1)]
            set == set_from_fm(traj[simkey].taxes, fm, cur_year)
        IN  IF set.raised # "none"
            THEN /\ sim' = [sim EXCEPT !.raised = set.raised]
                 /\ UNCHANGED <<traj, results>>
            ELSE /\ results' =
                        (get_simyearhash(simkey, cur_year) :>
                            this_year(fm, set.taxes, last_year, cur_year, nw_apr))
                        @@ results
                 /\ traj' = [traj EXCEPT ![simkey] =
                                [year |-> cur_year,
                                 nw_aprs |-> Append(@.nw_aprs, nw_apr),
                                 taxes |-> set.taxes]]
                 /\ UNCHANGED sim
    /\ UNCHANGED <<taxvars, eventvars, fm, fmcall, master>>

\* The trajectory of the simkey has run all its years.
Finished(simkey) ==
    /\ simkey \in DOMAIN traj
    /\ traj[simkey].year + 1 \notin arange(1, sim.nyears)

\* simmany after the simonce calls: the summaries over the year states.
Summarise ==
    /\ Running
    /\ sim.op = "simmany"
    /\ \A i \in DOMAIN sim.simkeys : Finished(sim.simkeys[i])
    /\ master' = summaries(results, sim.simkeys, sim.nyears)
    /\ sim' = [sim EXCEPT !.summarised = TRUE]
    /\ UNCHANGED <<taxvars, eventvars, fm, fmcall, traj, results>>

NextSim ==
    \/ \E c \in YearlyCalls : AddYearly(c.amount, c.nw_amount, c.agi_impacting)
    \/ \E c \in MonthlyCalls : AddMonthly(c.amount, c.nw_amount, c.agi_impacting)
    \/ \E status \in SimChangeStatuses, year_start \in SimYearStartArgs :
            ChangeStatus(status, year_start, None)
    \/ \E location \in SimChangeLocations, year_start \in SimYearStartArgs :
            ChangeResidence(location, year_start, None)
    \/ \E nyears \in YearCountArgs \cup {0, max_years + 1},
          initial_nw \in InitialNwArgs,
          nw_apr_avg \in Optional(NwAprArgs),
          nw_apr_stdev \in Optional(NwAprStdevArgs) :
            SimOnce(nyears, initial_nw, nw_apr_avg, nw_apr_stdev)
    \/ \E nruns \in RunArgs, nyears \in YearCountArgs,
          initial_nw \in InitialNwArgs, nw_apr_avg \in NwAprArgs,
          nw_apr_stdev \in NwAprStdevArgs :
            SimMany(nruns, nyears, initial_nw, nw_apr_avg, nw_apr_stdev)
    \/ \E i \in DOMAIN sim.simkeys : SimStart(sim.simkeys[i])
    \/ \E i \in DOMAIN sim.simkeys : SimYear(sim.simkeys[i])
    \/ Summarise

(***************************************************************************)
(* Specifications.                                                         *)
(***************************************************************************)
\* The default construction: FinancialModel()
Init == InitTax /\ InitEvent /\ InitModel(default_nw_apr, default_nw_apr_stdev, "None", "single") /\ InitSim

Next == NextTax \/ NextEvent \/ NextModel \/ NextSim

Spec == Init /\ [][Next]_vars

\* The TaxTable alone.
SpecTax == Init /\ [][NextTax]_vars

\* The builders alone.
SpecEvent == Init /\ [][NextEvent]_vars

\* A model built with some location and status, given events and simulated.
InitSimModels == InitTax /\ InitEvent /\ InitSim /\ (\E m \in SimModels : InitModel(m[1], m[2], m[3], m[4]))

SpecSim == InitSimModels /\ [][NextSim]_vars

\* A model built with some location and status, then changed and read.
InitModels == InitTax /\ InitEvent /\ InitSim /\ (\E location \in ModelLocations, status \in ModelStatuses : InitModel(default_nw_apr, default_nw_apr_stdev, location, status))

SpecModel == InitModels /\ [][NextModel]_vars

(***************************************************************************)
(* Properties of the tax table (checked under SpecTax).                    *)
(***************************************************************************)
\* Federal and state tables each walked from a floor of 0 on the same
\* deduction-adjusted income, the sum rounded.
incometax_stacked(t, pretax_income_arg) ==
    LET pretax_income == RSub(pretax_income_arg, RInt2Rat(t.standard_deduction))
    IN  RRound(RAdd(bracket_loop(t.federal, 1, pretax_income, 0),
                    bracket_loop(t.state, 1, pretax_income, 0)))

\* C1: for every status, residence and income, incometax is the rounded sum of
\* the federal tax and the full state tax, each walked from a floor of 0 on the
\* deduction-adjusted income.
C1_StackedFederalAndState ==
    taxcall.op = "incometax" =>
        taxcall.result = incometax_stacked(taxes, RInt2Rat(taxcall.arg))

\* C2: incometax is monotonically non-decreasing in the taxable income, and is
\* 0 for every income up to the standard deduction, negative incomes included.
C2_MonotoneAndZeroUpToDeduction ==
    taxcall.op = "incometax" =>
        /\ \A y \in Incomes :
             /\ y <= taxcall.arg =>
                    incometax(taxes, RInt2Rat(y)) <= taxcall.result
             /\ y >= taxcall.arg =>
                    incometax(taxes, RInt2Rat(y)) >= taxcall.result
        /\ taxcall.arg <= taxes.standard_deduction => taxcall.result = 0

\* A tax computed above the deduction, strictly between the taxes of a smaller
\* and of a larger income, on a table with a resident state.
C2_Witness ==
    /\ taxcall.op = "incometax"
    /\ taxes.state # <<>>
    /\ taxcall.arg > taxes.standard_deduction
    /\ \E x, y \in Incomes :
         /\ x < taxcall.arg /\ taxcall.arg < y
         /\ 0 < incometax(taxes, RInt2Rat(x))
         /\ incometax(taxes, RInt2Rat(x)) < taxcall.result
         /\ taxcall.result < incometax(taxes, RInt2Rat(y))

(***************************************************************************)
(* Properties of the builders (checked under SpecEvent).                   *)
(***************************************************************************)
Defined(ops) == call.op \in ops

RECURSIVE IntPow(_, _)
IntPow(n, k) == IF k <= 0 THEN 1 ELSE n * IntPow(n, k - 1)

\* amount * apr^k as one fraction.
Grown(amount, apr, k) == Rat(amount * IntPow(apr[1], k), IntPow(apr[2], k))

\* C3: a one-time or recurring event built with agi_impacting unspecified and
\* an amount >= 0 is AGI-impacting, and its positive cash counts in the
\* model's Adjusted Gross Income in every year it is active.
C3_UnspecifiedIncomeIsTaxable ==
    ( /\ Defined({"define_single", "define_yearly", "define_monthly"})
      /\ raised = "none"
      /\ call.agi_impacting = "None"
      /\ call.amount >= 0 ) =>
        /\ fe.agi_impacting
        /\ \A year \in DOMAIN fe.cashflow :
             AdjustedGrossIncome(<<fe>>, year) = RMax(<<0, 1>>, fe.cashflow[year])

\* C4: a one-time event built with a negative amount and agi_impacting
\* unspecified is not AGI-impacting and adds 0 to the Adjusted Gross Income
\* of every year.
C4_UnspecifiedExpenseNotTaxable ==
    ( /\ Defined({"define_single"})
      /\ call.agi_impacting = "None"
      /\ call.amount < 0 ) =>
        /\ fe.agi_impacting = FALSE
        /\ \A year \in YearArgs : AdjustedGrossIncome(<<fe>>, year) = <<0, 1>>

\* define_single(-1000, name, 2) has been called.
C4_Witness ==
    /\ Defined({"define_single"})
    /\ call.agi_impacting = "None"
    /\ call.amount = -1000
    /\ call.year_start = 2
    /\ gross_income(fe, 2) = <<-1000, 1>>

\* C5: for 0 <= year_start <= year_end <= max_years, define_yearly yields cash
\* amount * apr^(y - year_start) and net-worth adjustment
\* nw_amount * apr^(y - year_start) for exactly the years y of
\* [year_start, year_end), and 0 (no entry) for every other year.
C5_YearlyEntriesOverHalfOpenRange ==
    ( /\ Defined({"define_yearly"})
      /\ 0 <= call.year_start
      /\ call.year_start <= call.year_end
      /\ call.year_end <= max_years ) =>
        /\ raised = "none"
        /\ DOMAIN fe.cashflow = {y \in YearArgs :
                                    call.year_start <= y /\ y < call.year_end}
        /\ DOMAIN fe.nwflow = DOMAIN fe.cashflow
        /\ \A y \in YearArgs :
             IF call.year_start <= y /\ y < call.year_end
             THEN /\ gross_income(fe, y) =
                        Grown(call.amount, call.apr, y - call.year_start)
                  /\ explicit_nw_impact(fe, y) =
                        Grown(call.nw_amount, call.apr, y - call.year_start)
             ELSE /\ gross_income(fe, y) = <<0, 1>>
                  /\ explicit_nw_impact(fe, y) = <<0, 1>>

\* define_yearly(1000, name, 500, 1, 3, apr=1.5): 1500 and 750 in year 2,
\* nothing in year 3.
C5_Witness ==
    /\ Defined({"define_yearly"})
    /\ raised = "none"
    /\ call.amount = 1000 /\ call.nw_amount = 500
    /\ call.year_start = 1 /\ call.year_end = 3
    /\ call.apr = <<3, 2>>
    /\ gross_income(fe, 2) = <<1500, 1>>
    /\ explicit_nw_impact(fe, 2) = <<750, 1>>
    /\ 3 \notin DOMAIN fe.cashflow

\* C6: define_yearly and define_monthly raise the range error exactly when
\* year_start > year_end or year_end > max_years, succeed for every other
\* range, and write no cash or net-worth entry when they fail.
C6_RangeErrorExactlyOnBadRange ==
    Defined({"define_yearly", "define_monthly"}) =>
        /\ raised = "ValueError" <=>
               (call.year_start > call.year_end \/ call.year_end > max_years)
        /\ raised \in {"none", "ValueError"}
        /\ raised # "none" =>
               (fe.cashflow = EmptyFlow /\ fe.nwflow = EmptyFlow)
        /\ raised = "none" =>
               DOMAIN fe.cashflow = arange(call.year_start, call.year_end)

\* define_monthly refused a range that is in order but ends after max_years.
C6_Witness ==
    /\ Defined({"define_monthly"})
    /\ raised = "ValueError"
    /\ call.year_start <= call.year_end
    /\ call.year_end > max_years
    /\ fe.cashflow = EmptyFlow

\* C7: define_loan raises the parameter error whenever duration < 0 or apr is
\* outside [min_apr, max_apr], before any payment is computed.
C7_AprOutOfRangeRejected ==
    ( /\ Defined({"define_loan"})
      /\ \/ call.duration < 0
         \/ RLt(call.apr, min_apr)
         \/ RLt(max_apr, call.apr) ) =>
        /\ raised = "ValueError"
        /\ yearly_payment = {}
        /\ fe.cashflow = EmptyFlow

\* C8: when the payment cannot be found for parameters that passed the
\* validation, define_loan ends with the parameter error kind and with no
\* other exception kind.
C8_SolverFailureIsParameterError ==
    ( /\ Defined({"define_loan"})
      /\ ~loan_invalid(call.year_start, call.duration, call.apr)
      /\ yearly_payment = {} ) =>
        raised = "ValueError"

\* remaining(years) of the recurrence for a payment.
Remaining(payment) ==
    principal(RInt2Rat(call.amount), call.apr, RInt2Rat(payment), call.duration)

\* C9: for principal > 0, a multiplier in range and years >= 1, the payment
\* found is the rounded payment that brings remaining(years) to about zero:
\* no neighbouring whole payment leaves remaining(years) closer to 0.
C9_PaymentAmortizesOverYears ==
    ( /\ Defined({"define_loan"})
      /\ call.amount > 0
      /\ call.duration >= 1
      /\ RLeq(min_apr, call.apr) /\ RLeq(call.apr, max_apr) ) =>
        \A payment \in yearly_payment :
            /\ RLeq(RAbs(Remaining(payment)), RAbs(Remaining(payment - 1)))
            /\ RLeq(RAbs(Remaining(payment)), RAbs(Remaining(payment + 1)))

\* What is left of the loan after the event's cash flows of the first t years.
RECURSIVE LeftAfter(_)
LeftAfter(t) ==
    IF t <= 0 THEN RInt2Rat(call.amount)
    ELSE RAdd(RMul(LeftAfter(t - 1), call.apr),
              gross_income(fe, call.year_start + t - 1))

\* C10: applying the loan event's cash flows (the regular payments, then the
\* adjusted last payment) to the recurrence leaves r with -payment < r <= 0.
C10_LoanRoundTrip ==
    ( /\ Defined({"define_loan"})
      /\ raised = "none"
      /\ call.amount > 0
      /\ call.early_payoff_year >= call.year_start + call.duration ) =>
        \A payment \in yearly_payment :
            /\ RLeq(LeftAfter(call.duration), <<0, 1>>)
            /\ RLt(RInt2Rat(-payment), LeftAfter(call.duration))

\* The first year the loan no longer pays.
PayoffYear == Min(call.year_start + call.duration, call.early_payoff_year)

\* C11: for a loan with years >= 1, year_start + years <= max_years and
\* early_payoff_year > year_start, define_loan succeeds and the cash entries
\* are exactly the years [year_start, min(year_start + years, early_payoff_year)):
\* -payment in every year but the last, and in the last year
\* -(payment + the principal remaining at that point).
C11_LoanEntriesOverActiveYears ==
    ( /\ Defined({"define_loan"})
      /\ call.duration >= 1
      /\ call.year_start + call.duration <= max_years
      /\ call.early_payoff_year > call.year_start ) =>
        /\ raised = "none"
        /\ DOMAIN fe.cashflow = arange(call.year_start, PayoffYear)
        /\ \A payment \in yearly_payment :
            /\ \A year \in arange(call.year_start, PayoffYear - 1) :
                   fe.cashflow[year] = RInt2Rat(-payment)
            /\ fe.cashflow[PayoffYear - 1] =
                   RInt2Rat(-payment - RInt(principal(RInt2Rat(call.amount),
                       call.apr, RInt2Rat(payment),
                       PayoffYear - 1 - call.year_start)))

(***************************************************************************)
(* Properties of the model's mappings (checked under SpecModel).           *)
(***************************************************************************)
\* The mapping has an entry for every year of the horizon.
Total(mapping) == arange(0, max_years) \subseteq DOMAIN mapping

\* After construction and any sequence of change_residence / change_status
\* calls, the residence mapping and the status mapping both have an entry for
\* every year in [0, max_years).
C14_BothMappingsTotal ==
    Total(fm.residences) /\ Total(fm.status)

\* C14: after construction and any sequence of change_residence and
\* change_status calls, with or without year_end, the status mapping has an
\* entry for every year in [0, max_years), and so has the residence mapping of
\* a model constructed with a location; a model constructed without one
\* starts with no residence entry at all.
C14_StatusTotalResidenceIfLocated ==
    /\ Total(fm.status)
    /\ fmcall.new.location # "None" => Total(fm.residences)
    /\ (fmcall.op = "FinancialModel" /\ fmcall.new.location = "None") =>
           fm.residences = EmptyMapping

\* A model constructed with a location, after a change of status limited by
\* a year_end that rewrote year 2 only.
C14_Witness ==
    /\ fmcall.new.location # "None"
    /\ fmcall.op = "change_status"
    /\ fm.status[2] # fmcall.new.status
    /\ fm.status[3] = fmcall.new.status
    /\ Total(fm.status) /\ Total(fm.residences)

\* The error kind the code raises for a bad parameter or configuration.
ConfigurationError == "ValueError"

\* The year's residence or status is not one the tax tables know.
Unrecognized(year) ==
    \/ MappingGet(fm.status, year) \notin Statuses
    \/ /\ MappingGet(fm.residences, year) # "None"
       /\ MappingGet(fm.residences, year) \notin Locations

\* C15: set_from_fm(model, year) fails, with the one configuration-error
\* kind, exactly when the year's status or the year's residence is
\* unrecognized, and succeeds otherwise (no residence is an empty state table).
C15_SetFromFmOneConfigurationError ==
    taxcall.op = "set_from_fm" =>
        /\ taxcall.raised # "none" <=> Unrecognized(taxcall.arg)
        /\ taxcall.raised \in {"none", ConfigurationError}
        /\ ( /\ taxcall.raised = "none"
             /\ MappingGet(fm.residences, taxcall.arg) = "None" ) =>
               taxes.state = <<>>

(***************************************************************************)
(* Properties of the simulation (checked under SpecSim).                   *)
(***************************************************************************)
\* The sum of the year's cash over the events whose cash has one of the
\* signs, all events or the AGI-flagged ones only.
RECURSIVE CashSum(_, _, _, _)
CashSum(fevents, year, signs, flagged_only) ==
    IF fevents = <<>> THEN <<0, 1>>
    ELSE LET event == Head(fevents)
             cash  == Get(event.cashflow, year)
             counted == /\ RSign(cash) \in signs
                        /\ flagged_only => event.agi_impacting
         IN  RAdd(IF counted THEN cash ELSE <<0, 1>>,
                  CashSum(Tail(fevents), year, signs, flagged_only))

\* The sum of the year's net-worth adjustments over the events.
RECURSIVE NwSum(_, _)
NwSum(fevents, year) ==
    IF fevents = <<>> THEN <<0, 1>>
    ELSE RAdd(Get(Head(fevents).nwflow, year), NwSum(Tail(fevents), year))

\* The keys of the year states of the simulated years (year 0 is the seed).
SimulatedYears == {key \in DOMAIN results : key[2] >= 1}

C13_GrossExpensesImpactAreSums ==
    /\ \A key \in SimulatedYears :
        /\ results[key]["Gross Income"] =
               CashSum(fm.fevents, key[2], {1}, FALSE)
        /\ results[key]["Expenses"] =
               RAbs(CashSum(fm.fevents, key[2], {-1}, FALSE))
        /\ RSub(results[key]["Gross Income"], results[key]["Expenses"]) =
               CashSum(fm.fevents, key[2], {-1, 0, 1}, FALSE)
    /\ \A key \in DOMAIN results :
        results[key]["Explicit NW Impact"] = NwSum(fm.fevents, key[2])

\* A simulated year with an income, an expense and a net-worth adjustment.
C13_Witness ==
    \E key \in SimulatedYears :
        /\ RSign(results[key]["Gross Income"]) > 0
        /\ RSign(results[key]["Expenses"]) > 0
        /\ RSign(results[key]["Explicit NW Impact"]) > 0

\* Every status and residence the model holds is one the tax tables know.
Recognized ==
    /\ \A year \in DOMAIN fm.status : fm.status[year] \in Statuses
    /\ \A year \in DOMAIN fm.residences :
           fm.residences[year] \in Locations \cup {"None"}

\* C16: domain errors come at construction time only: once the model is
\* built, simonce(nyears) raises no error in any year for any nyears.
C16_SimulationNeverRaises ==
    sim.raised = "none"

\* simonce raised although every status and residence set is recognized.
C16_RaisedOnRecognizedModel ==
    Recognized /\ sim.op = "simonce" /\ sim.raised # "none"

\* C17: simmany(nruns, nyears) runs exactly nruns trajectories, and every
\* per-year summary statistic is computed over exactly nruns values.
C17_RunsExactlyNruns ==
    (sim.op = "simmany" /\ sim.summarised) =>
        /\ Cardinality(DOMAIN traj) = sim.nruns
        /\ \A year \in arange(0, sim.nyears), result \in resultkeys :
               Len(result_list(results, sim.simkeys, year, result)) = sim.nruns

\* The year states of simonce run on its own with the returns nw_apr_seq:
\* year 0 is the seed, year t follows from year t - 1 and nw_apr_seq[t], with
\* a TaxTable of its own set from the model for year t.
RECURSIVE Alone(_, _)
Alone(nw_apr_seq, year) ==
    IF year <= 0 THEN seed_year(fm, sim.initial_nw)
    ELSE this_year(fm,
                   set_from_fm(TaxTable("single", "None"), fm, year).taxes,
                   Alone(nw_apr_seq, year - 1), year, nw_apr_seq[year])

\* The returns of a run without spread: max(0, nw_apr_avg) every year.
Steady == [year \in 1..sim.nyears |-> RMax(<<0, 1>>, sim.nw_apr_avg)]

\* C18: with stdev 0, simmany(nruns = 1) gives, for every year and every
\* metric simonce computes, Mean = Median = 10% = 90% = the value of simonce.
C18_OneRunEqualsSimonce ==
    ( /\ sim.op = "simmany" /\ sim.summarised
      /\ sim.nruns = 1
      /\ sim.nw_apr_stdev = <<0, 1>> ) =>
        \A year \in arange(0, sim.nyears) :
            \A result \in DOMAIN Alone(Steady, year) :
                \A summary \in {"Mean", "Median", "10%", "90%"} :
                    master[summary][year][result] = Alone(Steady, year)[result]

\* For every year in [0, nyears) and every metric the output of simmany holds
\* all five statistics, each a number and never NaN, year 0 included.
C19_AllStatisticsDefined ==
    (sim.op = "simmany" /\ sim.summarised) =>
        /\ DOMAIN master = Summaries
        /\ \A summary \in Summaries :
            /\ DOMAIN master[summary] = arange(0, sim.nyears)
            /\ \A year \in arange(0, sim.nyears) :
                /\ DOMAIN master[summary][year] = resultkeys
                /\ \A result \in resultkeys :
                       ~IsNaN(master[summary][year][result])

\* C19: for every year in [0, nyears) and every metric the output of simmany
\* holds all five statistics; a statistic is a number when at least one
\* trajectory ran (simmany runs nruns - 1 of them) and the year is 1 or later,
\* or the year is 0 and the metric is Net Worth or Explicit NW Impact, and it
\* is NaN otherwise: year 0 has no other metric, and no run leaves no value.
C19_StatisticsDefinedButYearZero ==
    (sim.op = "simmany" /\ sim.summarised) =>
        /\ DOMAIN master = Summaries
        /\ \A summary \in Summaries :
            /\ DOMAIN master[summary] = arange(0, sim.nyears)
            /\ \A year \in arange(0, sim.nyears) :
                /\ DOMAIN master[summary][year] = resultkeys
                /\ \A result \in resultkeys :
                       IsNaN(master[summary][year][result]) <=>
                           \/ sim.nruns - 1 <= 0
                           \/ /\ year = 0
                              /\ result \notin {"Net Worth", "Explicit NW Impact"}

\* Two trajectories summarised over two years or more: the spread of Net
\* Worth in year 1 is a positive number, the mean of Taxes in year 0 is NaN.
C19_Witness ==
    /\ sim.op = "simmany" /\ sim.summarised
    /\ sim.nruns = 3 /\ sim.nyears >= 2
    /\ ~IsNaN(master["STDEV"][1]["Net Worth"])
    /\ RSign(master["STDEV"][1]["Net Worth"]) > 0
    /\ RSign(master["Mean"][1]["Taxes"]) > 0
    /\ IsNaN(master["Mean"][0]["Taxes"])

\* The year states of every trajectory are those of the trajectory run on its
\* own with the returns it drew, and its TaxTable is the one it set last.
OwnResults ==
    \A simkey \in DOMAIN traj :
        /\ \A year \in 0..traj[simkey].year :
               results[get_simyearhash(simkey, year)] =
                   Alone(traj[simkey].nw_aprs, year)
        /\ traj[simkey].taxes =
               IF traj[simkey].year = 0 THEN TaxTable("single", "None")
               ELSE set_from_fm(TaxTable("single", "None"), fm,
                                traj[simkey].year).taxes

\* C20: simonce never modifies the FinancialModel, and each trajectory has
\* its own TaxTable and its own year states: under every interleaving of the
\* year steps of different trajectories, each trajectory's results are those
\* of running it alone with the same drawn returns.
C20_TrajectoriesIndependent ==
    /\ []OwnResults
    /\ [][sim.op # "none" => fm' = fm]_vars

\* Trajectory 2 is a year ahead of trajectory 1, which has not finished, and
\* the two drew different returns.
C20_Witness ==
    /\ DOMAIN traj = {1, 2}
    /\ traj[1].year = 1 /\ traj[2].year = 2 /\ sim.nyears = 3
    /\ traj[1].nw_aprs[1] # traj[2].nw_aprs[1]
    /\ results[get_simyearhash(1, 1)]["Net Worth"] #
           results[get_simyearhash(2, 1)]["Net Worth"]

\* The ceiling max_nw of the FinancialModel of src/tax/glfinancial.py,
\* 8*1000*1000 there, scaled down.  The FinancialModel of GLFinancial.py
\* takes no such parameter.
max_nw == 30000

\* C21: in every trajectory and every year >= 1, Net Worth does not exceed
\* the ceiling: the value of the recurrence is capped at the ceiling.
C21_NetWorthCappedAtCeiling ==
    \A key \in SimulatedYears :
        RLeq(results[key]["Net Worth"], RInt2Rat(max_nw))

\* C22: when the caller gives no nw_apr_avg (no nw_apr_stdev), the returns of
\* the simulation are drawn with the mean (the deviation) the model was
\* constructed with, nw_apr (nw_apr_stdev).
C22_ModelReturnParametersUsed ==
    sim.op # "none" =>
        /\ ~sim.given.nw_apr_avg => sim.nw_apr_avg = fm.nw_apr
        /\ ~sim.given.nw_apr_stdev => sim.nw_apr_stdev = fm.nw_apr_stdev

\* C23: in every year t >= 1 of every trajectory, Net Worth is last year's
\* Net Worth, plus that Net Worth times (m - 1) for the drawn multiplier
\* m >= 0, plus last year's Net Gain (none in year 0), plus last year's
\* Explicit NW Impact; and Net Gain is (Gross Income - Taxes) - Expenses.
C23_NetWorthRecurrence ==
    \A key \in SimulatedYears :
        LET last == results[get_simyearhash(key[1], key[2] - 1)]
            m    == traj[key[1]].nw_aprs[key[2]]
            gain == IF key[2] = 1 THEN <<0, 1>> ELSE last["Net Gain"]
        IN  /\ RLeq(<<0, 1>>, m)
            /\ results[key]["Net Worth"] =
                   RAdd(RAdd(RAdd(last["Net Worth"],
                                  RMul(last["Net Worth"], RSub(m, <<1, 1>>))),
                             gain),
                        last["Explicit NW Impact"])
            /\ results[key]["Net Gain"] =
                   RSub(RSub(results[key]["Gross Income"], results[key]["Taxes"]),
                        results[key]["Expenses"])

\* A year 2 that follows a year with a Net Gain and an Explicit NW Impact,
\* under a multiplier other than 1.
C23_Witness ==
    \E key \in SimulatedYears :
        /\ key[2] = 2
        /\ results[get_simyearhash(key[1], 1)]["Net Gain"] # <<0, 1>>
        /\ results[get_simyearhash(key[1], 1)]["Explicit NW Impact"] # <<0, 1>>
        /\ traj[key[1]].nw_aprs[2] # <<1, 1>>

\* The years a trajectory has a state for.
YearsOf(simkey) == {key[2] : key \in {k \in DOMAIN results : k[1] = simkey}}

\* The year-0 state is the seed: Net Worth is initial_nw, and of the other
\* metrics only Explicit NW Impact is there.
SeedOnly(simkey) ==
    LET seed == results[get_simyearhash(simkey, 0)]
    IN  /\ DOMAIN seed = {"Net Worth", "Explicit NW Impact"}
        /\ seed["Net Worth"] = RInt2Rat(sim.initial_nw)

\* C24 as stated: the states of a trajectory are those of the years up to
\* the last one computed, a finished trajectory has the years 0..nyears-1,
\* and year 0 is the seed.
C24_OneStatePerYear ==
    \A simkey \in DOMAIN traj :
        /\ YearsOf(simkey) = 0..traj[simkey].year
        /\ Finished(simkey) => YearsOf(simkey) = 0..(sim.nyears - 1)
        /\ SeedOnly(simkey)

\* C24: as above, but a finished trajectory has the years 0..nyears-1 only
\* for nyears >= 1: for nyears = 0 it still has the seed of year 0.
C24_OneStatePerYearAndTheSeed ==
    \A simkey \in DOMAIN traj :
        /\ YearsOf(simkey) = 0..traj[simkey].year
        /\ Finished(simkey) => YearsOf(simkey) = 0..(Max(sim.nyears, 1) - 1)
        /\ SeedOnly(simkey)

\* A simonce of three years that has run to its end.
C24_Witness ==
    /\ sim.op = "simonce" /\ sim.nyears = 3
    /\ 0 \in DOMAIN traj /\ Finished(0)
    /\ YearsOf(0) = {0, 1, 2}

\* The table of the model's status and residence at the year.
TableOf(year) ==
    TaxTable(MappingGet(fm.status, year), MappingGet(fm.residences, year))

\* C25: in every simulated year t >= 1, Taxes is incometax of the year's
\* Adjusted Gross Income under the federal table, standard deduction and
\* state table of the model's status and residence at year t, and the
\* trajectory's TaxTable holds exactly these after the year, whatever the
\* years before left in it.
C25_TaxesFromTheYearsTables ==
    /\ \A key \in SimulatedYears :
        results[key]["Taxes"] =
            RInt2Rat(incometax(TableOf(key[2]),
                               results[key]["Adjusted Gross Income"]))
    /\ \A simkey \in DOMAIN traj :
        traj[simkey].year >= 1 => traj[simkey].taxes = TableOf(traj[simkey].year)

\* Status and residence change at year 2, and the same taxable income is
\* taxed differently in year 2 than in year 1.
C25_Witness ==
    \E simkey \in DOMAIN traj :
        LET one == results[get_simyearhash(simkey, 1)]
            two == results[get_simyearhash(simkey, 2)]
        IN  /\ traj[simkey].year = 2
            /\ MappingGet(fm.status, 2) # MappingGet(fm.status, 1)
            /\ MappingGet(fm.residences, 2) # MappingGet(fm.residences, 1)
            /\ two["Adjusted Gross Income"] = one["Adjusted Gross Income"]
            /\ two["Taxes"] # one["Taxes"]
            /\ traj[simkey].taxes = TaxTable("married", "CA")

\* The years the event of the last builder call is active.
ActiveYears ==
    CASE call.op = "define_single" -> {call.year_start}
      [] call.op \in {"define_yearly", "define_monthly"} ->
             arange(call.year_start, call.year_end)
      [] call.op = "define_loan" -> arange(call.year_start, PayoffYear)

Builders == {"define_single", "define_yearly", "define_monthly", "define_loan"}

\* C26 as stated: an event built by any of the builders has its cash mapping
\* and its net-worth-adjustment mapping defined for the active years, both.
C26_BothFlowsOverActiveYears ==
    (Defined(Builders) /\ raised = "none") =>
        /\ DOMAIN fe.cashflow = ActiveYears
        /\ DOMAIN fe.nwflow = ActiveYears

\* C26: the cash mapping of a built event is defined for exactly the active
\* years; the net-worth-adjustment mapping is defined for the same years for
\* a one-time, yearly or monthly event, and for no year for a loan.
C26_FlowsOverActiveYearsButLoanNw ==
    (Defined(Builders) /\ raised = "none") =>
        /\ DOMAIN fe.cashflow = ActiveYears
        /\ DOMAIN fe.nwflow = IF call.op = "define_loan" THEN {} ELSE ActiveYears

\* A loan built with payments in several years and no net-worth adjustment.
C26_Witness ==
    /\ Defined({"define_loan"}) /\ raised = "none"
    /\ Cardinality(DOMAIN fe.cashflow) >= 2
    /\ fe.nwflow = EmptyFlow

\* The sum of a metric of the trajectory over the years first..last.
RECURSIVE MetricSum(_, _, _, _)
MetricSum(simkey, metric, first, last) ==
    IF last < first THEN <<0, 1>>
    ELSE RAdd(MetricSum(simkey, metric, first, last - 1),
              results[get_simyearhash(simkey, last)][metric])

\* Every multiplier the trajectory drew up to the year is 1.
ConstantOne(simkey, year) ==
    \A t \in 1..year : traj[simkey].nw_aprs[t] = <<1, 1>>

\* C27: in a trajectory whose multipliers are all 1, Net Worth of year t >= 1
\* is initial_nw, plus the Explicit NW Impact of the years 0..t-1, plus the
\* Net Gain of the years 1..t-1: the adjustment of year 0 counts, in year 1,
\* and the cash flows of year 0 never do.
C27_YearZeroCashNeverCounts ==
    \A key \in SimulatedYears :
        ConstantOne(key[1], key[2]) =>
            /\ results[key]["Net Worth"] =
                RAdd(RAdd(RInt2Rat(sim.initial_nw),
                          MetricSum(key[1], "Explicit NW Impact", 0, key[2] - 1)),
                     MetricSum(key[1], "Net Gain", 1, key[2] - 1))
            /\ key[2] = 1 =>
                results[key]["Net Worth"] =
                    RAdd(RInt2Rat(sim.initial_nw), ExplicitNWImpact(fm.fevents, 0))

\* Year 2 under multipliers of 1, of a model that has income, expenses and
\* an explicit adjustment in year 0, and a Net Gain in year 1.
C27_Witness ==
    \E key \in SimulatedYears :
        /\ key[2] = 2 /\ ConstantOne(key[1], 2)
        /\ GrossIncome(fm.fevents, 0) # <<0, 1>>
        /\ Expenses(fm.fevents, 0) # <<0, 1>>
        /\ ExplicitNWImpact(fm.fevents, 0) # <<0, 1>>
        /\ results[get_simyearhash(key[1], 1)]["Net Gain"] # <<0, 1>>

\* The metrics of a year other than Net Worth.
FlowMetrics == resultkeys \ {"Net Worth"}

\* The year's state as the loop computes it from a year-0 state of no net
\* worth and a multiplier of 1, whatever the trajectory went through.
FromModelAndYear(year) ==
    this_year(fm, TableOf(year), seed_year(fm, 0), year, <<1, 1>>)

\* C28: in every year >= 1, the six metrics other than Net Worth are those
\* computed from the model and the year alone, so that any two trajectories
\* agree on them in the years they both have.
C28_FlowMetricsIndependentOfDraws ==
    /\ \A key \in SimulatedYears : \A metric \in FlowMetrics :
        results[key][metric] = FromModelAndYear(key[2])[metric]
    /\ \A one, other \in SimulatedYears : \A metric \in FlowMetrics :
        one[2] = other[2] => results[one][metric] = results[other][metric]

\* Two trajectories of different draws in year 2: their Net Worth differs,
\* and they have taxes and a net gain to agree on.
C28_Witness ==
    \E one, other \in SimulatedYears :
        /\ one[2] = 2 /\ other[2] = 2
        /\ traj[one[1]].nw_aprs # traj[other[1]].nw_aprs
        /\ results[one]["Net Worth"] # results[other]["Net Worth"]
        /\ results[one]["Taxes"] # <<0, 1>>
        /\ results[one]["Net Gain"] # <<0, 1>>

\* C29: in every simulated year >= 1 of every trajectory,
\* 0 <= Taxes <= Adjusted Gross Income <= Gross Income and Expenses >= 0,
\* and so Net Gain >= -Expenses.
C29_MetricsOrdered ==
    \A key \in SimulatedYears :
        /\ RLeq(<<0, 1>>, results[key]["Taxes"])
        /\ RLeq(results[key]["Taxes"], results[key]["Adjusted Gross Income"])
        /\ RLeq(results[key]["Adjusted Gross Income"], results[key]["Gross Income"])
        /\ RLeq(<<0, 1>>, results[key]["Expenses"])
        /\ RLeq(RSub(<<0, 1>>, results[key]["Expenses"]), results[key]["Net Gain"])

\* A year with a tax, below a taxable income that is below the gross income.
C29_Witness ==
    \E key \in SimulatedYears :
        /\ RLt(<<0, 1>>, results[key]["Taxes"])
        /\ RLt(results[key]["Taxes"], results[key]["Adjusted Gross Income"])
        /\ RLt(results[key]["Adjusted Gross Income"], results[key]["Gross Income"])

\* The state table of the residence: none for no residence.
StateTableOf(location) ==
    IF location = "None" THEN <<>> ELSE tax_at_location(location)

\* C30: a set_from_fm(model, year) that fails on the year's status (one not
\* recognized, or none as for a year past the mapping) has replaced the
\* state table by that of the year's residence and left the federal table
\* and the standard deduction as they were; one that fails on the year's
\* residence has changed nothing; the residence is looked at first.
C30_SetFromFmResidenceFirst ==
    [][taxcall'.op = "set_from_fm" =>
        LET location == MappingGet(fm.residences, taxcall'.arg)
            status   == MappingGet(fm.status, taxcall'.arg)
            known    == location = "None" \/ location \in Locations
        IN  /\ ~known => (taxcall'.raised = "KeyError" /\ taxes' = taxes)
            /\ (known /\ status \notin Statuses) =>
                   /\ taxcall'.raised = "AttributeError"
                   /\ taxes'.state = StateTableOf(location)
                   /\ taxes'.federal = taxes.federal
                   /\ taxes'.standard_deduction = taxes.standard_deduction
            /\ (known /\ status \in Statuses) => taxcall'.raised = "none"]_vars

\* A set_from_fm failed on the status of a year in California, after one
\* that succeeded for a married year elsewhere: the table has the state
\* brackets of the failed year and the federal brackets of the earlier one.
C30_Witness ==
    /\ taxcall.op = "set_from_fm" /\ taxcall.raised = "AttributeError"
    /\ MappingGet(fm.residences, taxcall.arg) = "CA"
    /\ MappingGet(fm.residences, 0) # "CA"
    /\ MappingGet(fm.status, 0) = "married"
    /\ taxes.state = tax_at_location("CA")
    /\ taxes.federal = federal_tax_rates("married")
    /\ taxes.standard_deduction = federal_standard_deductions("married")

====
